---- MODULE Spec2Model ----
(***************************************************************************)
(* A model of ennemi/_driver.py: estimate_mi, _check_parameters,           *)
(* _should_be_parallel and _lagged_mi.                                     *)
(*                                                                         *)
(* One call of estimate_mi is followed from its entry to its return or to  *)
(* the exception it raises.  The arguments are drawn at the step that      *)
(* first reads them.  Arrays are Python sequences indexed from 0; the      *)
(* element at Python index i of a sequence s is s[i + 1].  The contents of *)
(* y, of every column of x and of cond are pairwise distinct numbers that  *)
(* encode (array, column, index), so that a slice tells which indices it   *)
(* was cut from.                                                           *)
(***************************************************************************)
EXTENDS Integers, Sequences, FiniteSets, TLC

\* Bounds of the model.
MaxN == 3
MaxK == 1
MaxVar == 2
MaxLag == 3
MaxLags == 2
MaxCondLag == 1

\* Bounds of the dispatch specification (lengths of y around the threshold).
DispatchSpan == 4

VARIABLES
    pc,          \* position in estimate_mi
    x,           \* [ndim, cols]: the columns of x (one column when x is 1D)
    y,           \* the observations of y
    k,
    cond,        \* [present, data]
    mask,        \* [present, data, dtype]
    lag,         \* the lag array after np.asarray
    cond_lag,
    parallel,
    min_lag,
    max_lag,
    indices,     \* list(itertools.product(range(len(lag)), range(nvar)))
    params,      \* the (lazy) sequence of task descriptors
    inpool,      \* TRUE when the tasks were submitted to the process pool
    tasks,       \* per descriptor: what its run of _lagged_mi produced
    arrival,     \* the task positions in the order their runs completed
    pos,         \* number of (index, result) pairs the collecting loop took
    result,      \* the grid np.empty((len(lag), nvar)) being filled
    writes,      \* per cell: how many times it was assigned
    invocations, \* number of times _lagged_mi was entered
    decision,    \* what _should_be_parallel returned, "" before it is called
    error        \* the exception the call raised, "" if none

vars == <<pc, x, y, k, cond, mask, lag, cond_lag, parallel, min_lag, max_lag,
          indices, params, inpool, tasks, arrival, pos, result, writes,
          invocations, decision, error>>

----------------------------------------------------------------------------
\* Python and numpy primitives.

Min(a, b) == IF a < b THEN a ELSE b
Max(a, b) == IF a > b THEN a ELSE b

\* A slice bound as Python clips it for a sequence of length n.
SliceIndex(i, n) == IF i < 0 THEN Max(i + n, 0) ELSE Min(i, n)

\* a[start:stop]
PySlice(a, start, stop) ==
    LET s == SliceIndex(start, Len(a))
        e == SliceIndex(stop, Len(a))
    IN  IF s < e THEN SubSeq(a, s + 1, e) ELSE <<>>

\* a[m] for a boolean index m: the elements at the True positions, in order.
\* An index of length 0 (an empty boolean array or an empty list) selects
\* nothing.
RECURSIVE BoolSelect(_, _)
BoolSelect(a, m) ==
    IF m = <<>> THEN <<>>
    ELSE (IF Head(m) THEN <<Head(a)>> ELSE <<>>) \o BoolSelect(Tail(a), Tail(m))

\* numpy raises IndexError when a boolean index of one or more elements does
\* not have the length of the indexed array; it does not compare the lengths
\* for an index of length 0.
BoolIndexRaises(a, m) == m # <<>> /\ Len(m) # Len(a)

\* np.min and np.max of a non-empty array.
RECURSIVE NpMin(_)
NpMin(s) == IF Len(s) = 1 THEN s[1] ELSE Min(s[1], NpMin(Tail(s)))
RECURSIVE NpMax(_)
NpMax(s) == IF Len(s) = 1 THEN s[1] ELSE Max(s[1], NpMax(Tail(s)))

\* lag + cond_lag (broadcast)
NpAdd(s, c) == [n \in 1..Len(s) |-> s[n] + c]

----------------------------------------------------------------------------
\* The inputs.

YVal(i) == i
XVal(j, i) == 100 * (j + 1) + i
CVal(i) == 1000 + i

MkY(n) == [i \in 1..n |-> YVal(i - 1)]
MkCol(j, n) == [i \in 1..n |-> XVal(j, i - 1)]
MkX(ndim, rows, nvar) == [ndim |-> ndim, cols |-> [j \in 1..nvar |-> MkCol(j - 1, rows)]]
MkCond(n) == [i \in 1..n |-> CVal(i - 1)]

NoCond == [present |-> FALSE, data |-> <<>>]
NoMask == [present |-> FALSE, data |-> <<>>, dtype |-> "bool"]

XInputs == {MkX(1, r, 1) : r \in 1..MaxN}
           \cup {MkX(2, r, v) : r \in 1..MaxN, v \in 1..MaxVar}
CondInputs == {NoCond} \cup {[present |-> TRUE, data |-> MkCond(n)] : n \in 1..MaxN}
MaskInputs == {NoMask}
              \cup {[present |-> TRUE, data |-> d, dtype |-> t] :
                      d \in UNION {[1..n -> BOOLEAN] : n \in 1..MaxN},
                      t \in {"bool", "int64"}}

\* lag as passed: an int or a list of ints.
LagInputs == {[isint |-> TRUE, int |-> l, list |-> <<>>] : l \in -MaxLag..MaxLag}
             \cup {[isint |-> FALSE, int |-> 0, list |-> s] :
                     s \in UNION {[1..n -> -MaxLag..MaxLag] : n \in 0..MaxLags}}
ParallelInputs == {"None", "always", "disable", "sometimes"}

\* Lines 76-78: an int lag becomes a one-element array.
NormalizeLag(l) == IF l.isint THEN <<l.int>> ELSE l.list

\* x.shape[0]
XRows(xx) == Len(xx.cols[1])

----------------------------------------------------------------------------
\* _check_parameters: the message of the exception it raises, "" if none.
check_parameters(xx, yy, kk, cc, mm) ==
    IF XRows(xx) # Len(yy) THEN "ValueError: x and y must have same length"
    ELSE IF cc.present /\ XRows(xx) # Len(cc.data)
        THEN "ValueError: x and cond must have same length"
    ELSE IF XRows(xx) <= kk
        THEN "ValueError: k must be smaller than number of observations"
    ELSE IF mm.present /\ Len(mm.data) # Len(yy)
        THEN "ValueError: mask length does not match y length"
    ELSE IF mm.present /\ mm.dtype # "bool"
        THEN "TypeError: mask must contain only booleans"
    ELSE ""

\* Lines 91-92.
MinLagOf(l, cl) == Min(NpMin(l), NpMin(NpAdd(l, cl)))
MaxLagOf(l, cl) == Max(NpMax(l), NpMax(NpAdd(l, cl)))

\* The lag-range check without its bound on the negative lags.
LagTooLargeNoNegative(mn, mx, n) == mx - mn >= n \/ mx >= n

\* Line 95.
LagTooLarge(mn, mx, n) == mx - mn >= n \/ mx >= n \/ mn <= -n

\* Lines 98-101.
NVar(xx) == IF xx.ndim = 1 THEN 1 ELSE Len(xx.cols)

\* Line 105: itertools.product(range(nl), range(nvar)), as a list of 0-based
\* pairs.
Indices(nl, nvar) ==
    [n \in 1..(nl * nvar) |-> <<(n - 1) \div nvar, (n - 1) % nvar>>]

\* The tuple handed to _lagged_mi.
Descriptor(col, yy, l, mx, mn, kk, mm, cc, cl) ==
    [x |-> col, y |-> yy, lag |-> l, max_lag |-> mx, min_lag |-> mn, k |-> kk,
     mask |-> mm, cond |-> cc, cond_lag |-> cl]

\* The descriptors when the map over the lags is used for every shape of x.
ParamsPerLag(xx, yy, l, mx, mn, kk, mm, cc, cl, idx) ==
    [n \in 1..Len(l) |->
        Descriptor(xx.cols[1], yy, l[n], mx, mn, kk, mm, cc, cl)]

\* Lines 106-109: the descriptors the map object yields, in order.
Params(xx, yy, l, mx, mn, kk, mm, cc, cl, idx) ==
    IF xx.ndim = 1
    THEN [n \in 1..Len(l) |->
            Descriptor(xx.cols[1], yy, l[n], mx, mn, kk, mm, cc, cl)]
    ELSE [n \in 1..Len(idx) |->
            Descriptor(xx.cols[idx[n][2] + 1], yy, l[idx[n][1] + 1],
                       mx, mn, kk, mm, cc, cl)]

\* Line 167.
ParallelThreshold == 200

\* The decision with the threshold on the length of y off by one.
should_be_parallel_ge(par, ntasks, ylen) ==
    IF par = "always" THEN "True"
    ELSE IF par = "disable" THEN "False"
    ELSE IF par # "None" THEN "ValueError"
    ELSE IF ntasks > 1 /\ ylen >= ParallelThreshold THEN "True" ELSE "False"

\* _should_be_parallel: "True", "False" or "ValueError".
should_be_parallel(par, ntasks, ylen) ==
    IF par = "always" THEN "True"
    ELSE IF par = "disable" THEN "False"
    ELSE IF par # "None" THEN "ValueError"
    ELSE IF ntasks > 1 /\ ylen > ParallelThreshold THEN "True" ELSE "False"

\* The x window without the crop for the negative lags of the call.
XWindowNoCrop(p) == PySlice(p.x, p.max_lag - p.lag, Len(p.x) - p.lag)

\* Lines 175, 177, 181 and 189: the windows of x, y, the mask and cond.
XWindow(p) == PySlice(p.x, p.max_lag - p.lag,
                      Len(p.x) - p.lag + Min(p.min_lag, 0))
YWindow(p) == PySlice(p.y, p.max_lag, Len(p.y) + Min(p.min_lag, 0))
MaskWindow(p) == PySlice(p.mask.data, p.max_lag, Len(p.y) + Min(p.min_lag, 0))
CondWindow(p) == PySlice(p.cond.data, p.max_lag - (p.lag + p.cond_lag),
                         Len(p.cond.data) - (p.lag + p.cond_lag) + Min(p.min_lag, 0))

\* What one run of _lagged_mi did: raised is TRUE when a boolean indexing
\* raised IndexError before the estimator was called; otherwise xs, ys (and zs
\* when conditional) are the slices handed to the estimator together with k.
\* wx, wy, wz are the windows before masking (wz only when zcut).
Outcome(r, wx, wy, wz, zc, xs, ys, zs, kk, c) ==
    [raised |-> r, wx |-> wx, wy |-> wy, wz |-> wz, zcut |-> zc,
     xs |-> xs, ys |-> ys, zs |-> zs, k |-> kk, conditional |-> c]

lagged_mi(p) ==
    LET wx == XWindow(p)
        wy == YWindow(p)
        ms == MaskWindow(p)
        wz == CondWindow(p)
    IN  IF p.mask.present /\ (BoolIndexRaises(wx, ms) \/ BoolIndexRaises(wy, ms))
        THEN Outcome(TRUE, wx, wy, <<>>, FALSE, <<>>, <<>>, <<>>, p.k, p.cond.present)
        ELSE LET xs == IF p.mask.present THEN BoolSelect(wx, ms) ELSE wx
                 ys == IF p.mask.present THEN BoolSelect(wy, ms) ELSE wy
             IN  IF ~p.cond.present
                 THEN Outcome(FALSE, wx, wy, <<>>, FALSE, xs, ys, <<>>, p.k, FALSE)
                 ELSE IF p.mask.present /\ BoolIndexRaises(wz, ms)
                 THEN Outcome(TRUE, wx, wy, wz, TRUE, <<>>, <<>>, <<>>, p.k, TRUE)
                 ELSE Outcome(FALSE, wx, wy, wz, TRUE, xs, ys,
                              IF p.mask.present THEN BoolSelect(wz, ms) ELSE wz,
                              p.k, TRUE)

\* The scalar an estimator returns is a function of its arguments alone; it is
\* represented by the arguments.
Estimate(o) == [xs |-> o.xs, ys |-> o.ys, zs |-> o.zs, k |-> o.k,
                conditional |-> o.conditional]

\* The content of a cell of np.empty before it is assigned.
Garbage == [xs |-> <<>>, ys |-> <<>>, zs |-> <<>>, k |-> -1, conditional |-> FALSE]

NullOutcome == Outcome(FALSE, <<>>, <<>>, <<>>, FALSE, <<>>, <<>>, <<>>, 0, FALSE)
NewTask == [state |-> "new", err |-> "", out |-> NullOutcome]

\* One run of _lagged_mi on descriptor p; estimator_ok tells whether the
\* estimator returned or raised.
RunTask(p, estimator_ok) ==
    LET o == lagged_mi(p)
    IN  IF o.raised THEN [state |-> "failed", err |-> "IndexError", out |-> o]
        ELSE IF estimator_ok THEN [state |-> "done", err |-> "", out |-> o]
        ELSE [state |-> "failed", err |-> "EstimatorError", out |-> o]

\* Line 120.
EmptyGrid(nl, nvar) == [c \in (0..(nl - 1)) \X (0..(nvar - 1)) |-> Garbage]
ZeroWrites(nl, nvar) == [c \in (0..(nl - 1)) \X (0..(nvar - 1)) |-> 0]

\* The results taken in the order the tasks completed in.
ResultAtArrival(ts, arr, n) == ts[arr[n]]

\* executor.map and map yield the results in the order of the descriptors:
\* the n-th result is the one of the n-th descriptor.
ResultAt(ts, arr, n) == ts[n]

\* A failed task's exception swallowed.
RaisesNever(r) == FALSE

\* Taking the result of a task whose run raised re-raises its exception in
\* estimate_mi.
Raises(r) == r.state = "failed"

----------------------------------------------------------------------------
\* estimate_mi, step by step.

Init ==
    /\ pc = "start"
    /\ x = [ndim |-> 1, cols |-> <<>>]
    /\ y = <<>>
    /\ k = 0
    /\ cond = NoCond
    /\ mask = NoMask
    /\ lag = <<>>
    /\ cond_lag = 0
    /\ parallel = "None"
    /\ min_lag = 0
    /\ max_lag = 0
    /\ indices = <<>>
    /\ params = <<>>
    /\ inpool = FALSE
    /\ tasks = <<>>
    /\ arrival = <<>>
    /\ pos = 0
    /\ result = <<>>
    /\ writes = <<>>
    /\ invocations = 0
    /\ decision = ""
    /\ error = ""

\* Lines 80-88: x, y, k, cond and mask are read and validated.
CheckParameters ==
    /\ pc = "start"
    /\ \E xx \in XInputs, n \in 1..MaxN, kk \in 1..MaxK,
          cc \in CondInputs, mm \in MaskInputs :
        /\ x' = xx
        /\ y' = MkY(n)
        /\ k' = kk
        /\ cond' = cc
        /\ mask' = mm
        /\ error' = check_parameters(xx, MkY(n), kk, cc, mm)
        /\ pc' = IF error' = "" THEN "checked" ELSE "raised"
    /\ UNCHANGED <<lag, cond_lag, parallel, min_lag, max_lag, indices, params,
                   inpool, tasks, arrival, pos, result, writes, invocations,
                   decision>>

\* Lines 76-78 and 91-96: lag and cond_lag are read, the lag range is
\* computed and checked.  np.min raises ValueError on an empty lag array.
LagRange ==
    /\ pc = "checked"
    /\ \E l \in LagInputs, cl \in -MaxCondLag..MaxCondLag :
        /\ lag' = NormalizeLag(l)
        /\ cond_lag' = cl
        /\ IF lag' = <<>>
           THEN /\ error' = "ValueError: zero-size array to reduction operation"
                /\ pc' = "raised"
                /\ UNCHANGED <<min_lag, max_lag>>
           ELSE /\ min_lag' = MinLagOf(lag', cl)
                /\ max_lag' = MaxLagOf(lag', cl)
                /\ IF LagTooLarge(min_lag', max_lag', Len(y))
                   THEN /\ error' = "ValueError: lag is too large, no observations left"
                        /\ pc' = "raised"
                   ELSE /\ error' = ""
                        /\ pc' = "ranged"
    /\ UNCHANGED <<x, y, k, cond, mask, parallel, indices, params, inpool,
                   tasks, arrival, pos, result, writes, invocations, decision>>

\* Lines 98-109: the index pairs and the map object over the descriptors.
\* The map is lazy: no descriptor is built into a run here.
Enumerate ==
    /\ pc = "ranged"
    /\ indices' = Indices(Len(lag), NVar(x))
    /\ params' = Params(x, y, lag, max_lag, min_lag, k, mask, cond, cond_lag,
                        indices')
    /\ tasks' = [n \in 1..Len(params') |-> NewTask]
    /\ pc' = "enumerated"
    /\ UNCHANGED <<x, y, k, cond, mask, lag, cond_lag, parallel, min_lag,
                   max_lag, inpool, arrival, pos, result, writes, invocations,
                   decision, error>>

\* Lines 113-120: the dispatch decision.  Sequential: the lazy map is made
\* and the grid allocated.  Parallel: executor.map submits every descriptor
\* to the pool.
Dispatch ==
    /\ pc = "enumerated"
    /\ \E par \in ParallelInputs :
        /\ parallel' = par
        /\ decision' = should_be_parallel(par, Len(indices), Len(y))
        /\ LET d == decision'
           IN  IF d = "ValueError"
               THEN /\ error' = "ValueError: unrecognized value for parallel argument"
                    /\ pc' = "raised"
                    /\ UNCHANGED <<inpool, result, writes>>
               ELSE IF d = "True"
               THEN /\ inpool' = TRUE
                    /\ pc' = "pool"
                    /\ UNCHANGED <<error, result, writes>>
               ELSE /\ inpool' = FALSE
                    /\ pc' = "collect"
                    /\ result' = EmptyGrid(Len(lag), NVar(x))
                    /\ writes' = ZeroWrites(Len(lag), NVar(x))
                    /\ UNCHANGED error
    /\ UNCHANGED <<x, y, k, cond, mask, lag, cond_lag, min_lag, max_lag,
                   indices, params, tasks, arrival, pos, invocations>>

\* A worker process runs one submitted descriptor; the workers take and
\* finish them in any order.
WorkerRun ==
    /\ pc = "pool"
    /\ \E n \in 1..Len(tasks), ok \in BOOLEAN :
        /\ tasks[n].state = "new"
        /\ tasks' = [tasks EXCEPT ![n] = RunTask(params[n], ok)]
        /\ arrival' = Append(arrival, n)
    /\ invocations' = invocations + 1
    /\ UNCHANGED <<pc, x, y, k, cond, mask, lag, cond_lag, parallel, min_lag,
                   max_lag, indices, params, inpool, pos, result, writes,
                   decision, error>>

\* Line 114-115, 120: leaving the with block waits for every submitted task
\* (shutdown(wait=True)); then the grid is allocated.
PoolShutdown ==
    /\ pc = "pool"
    /\ \A n \in 1..Len(tasks) : tasks[n].state # "new"
    /\ pc' = "collect"
    /\ result' = EmptyGrid(Len(lag), NVar(x))
    /\ writes' = ZeroWrites(Len(lag), NVar(x))
    /\ UNCHANGED <<x, y, k, cond, mask, lag, cond_lag, parallel, min_lag,
                   max_lag, indices, params, inpool, tasks, arrival, pos,
                   invocations, decision, error>>

\* Lines 121-122, sequential: zip takes the next index and the next result;
\* the lazy map runs _lagged_mi on the next descriptor in this process.
CollectSequential ==
    /\ pc = "collect"
    /\ ~inpool
    /\ pos < Len(indices)
    /\ pos < Len(params)
    /\ \E ok \in BOOLEAN :
        /\ tasks' = [tasks EXCEPT ![pos + 1] = RunTask(params[pos + 1], ok)]
        /\ arrival' = Append(arrival, pos + 1)
        /\ invocations' = invocations + 1
        /\ LET r == ResultAt(tasks', arrival', pos + 1)
           IN  IF Raises(r)
               THEN /\ error' = r.err
                    /\ pc' = "raised"
                    /\ UNCHANGED <<pos, result, writes>>
               ELSE /\ result' = [result EXCEPT ![indices[pos + 1]] = Estimate(r.out)]
                    /\ writes' = [writes EXCEPT ![indices[pos + 1]] = @ + 1]
                    /\ pos' = pos + 1
                    /\ UNCHANGED <<pc, error>>
    /\ UNCHANGED <<x, y, k, cond, mask, lag, cond_lag, parallel, min_lag,
                   max_lag, indices, params, inpool, decision>>

\* Lines 121-122, parallel: zip takes the next index and the next result of
\* the iterator executor.map returned; a failed task's exception is raised
\* when its result is taken.
CollectParallel ==
    /\ pc = "collect"
    /\ inpool
    /\ pos < Len(indices)
    /\ pos < Len(tasks)
    /\ LET r == ResultAt(tasks, arrival, pos + 1)
       IN  IF Raises(r)
           THEN /\ error' = r.err
                /\ pc' = "raised"
                /\ UNCHANGED <<pos, result, writes>>
           ELSE /\ result' = [result EXCEPT ![indices[pos + 1]] = Estimate(r.out)]
                /\ writes' = [writes EXCEPT ![indices[pos + 1]] = @ + 1]
                /\ pos' = pos + 1
                /\ UNCHANGED <<pc, error>>
    /\ UNCHANGED <<x, y, k, cond, mask, lag, cond_lag, parallel, min_lag,
                   max_lag, indices, params, inpool, tasks, arrival,
                   invocations, decision>>

\* Line 132: zip is exhausted, the grid is returned.
Return ==
    /\ pc = "collect"
    /\ pos >= Min(Len(indices), Len(params))
    /\ pc' = "returned"
    /\ UNCHANGED <<x, y, k, cond, mask, lag, cond_lag, parallel, min_lag,
                   max_lag, indices, params, inpool, tasks, arrival, pos,
                   result, writes, invocations, decision, error>>

Next ==
    \/ CheckParameters
    \/ LagRange
    \/ Enumerate
    \/ Dispatch
    \/ WorkerRun
    \/ PoolShutdown
    \/ CollectSequential
    \/ CollectParallel
    \/ Return

Spec == Init /\ [][Next]_vars

----------------------------------------------------------------------------
\* _should_be_parallel alone, on lengths of y around the threshold.

InitDispatch ==
    /\ pc = "enumerated"
    /\ x = [ndim |-> 1, cols |-> <<>>]
    /\ \E n \in (ParallelThreshold - DispatchSpan)..(ParallelThreshold + DispatchSpan) :
          y = MkY(n)
    /\ k = 0
    /\ cond = NoCond
    /\ mask = NoMask
    /\ lag = <<>>
    /\ cond_lag = 0
    /\ parallel = "None"
    /\ min_lag = 0
    /\ max_lag = 0
    /\ \E nl \in 0..MaxLags, nvar \in 1..MaxVar : indices = Indices(nl, nvar)
    /\ params = <<>>
    /\ inpool = FALSE
    /\ tasks = <<>>
    /\ arrival = <<>>
    /\ pos = 0
    /\ result = <<>>
    /\ writes = <<>>
    /\ invocations = 0
    /\ decision = ""
    /\ error = ""

Decide ==
    /\ pc = "enumerated"
    /\ \E par \in ParallelInputs :
        /\ parallel' = par
        /\ decision' = should_be_parallel(par, Len(indices), Len(y))
    /\ pc' = "decided"
    /\ UNCHANGED <<x, y, k, cond, mask, lag, cond_lag, min_lag, max_lag,
                   indices, params, inpool, tasks, arrival, pos, result,
                   writes, invocations, error>>

SpecDispatch == InitDispatch /\ [][Decide]_vars

----------------------------------------------------------------------------
\* The claims.

N == Len(y)
Abs(a) == IF a < 0 THEN -a ELSE a
TaskIds == 1..Len(tasks)
\* _lagged_mi was run on the n-th descriptor.
Ran(n) == tasks[n].state # "new"
\* ... and it called the estimator.
Handed(n) == Ran(n) /\ ~tasks[n].out.raised

\* C1: lag alignment y(t+lag) ~ x(t).  In every task of a call without a
\* mask the slices handed to the estimator have the same length, and at every
\* position j they hold y[i], x[i - lag] and cond[i - lag - cond_lag] for the
\* same index i = max_lag + j with 0 <= i < N; y's slice is the same in
\* every task.
C1_LagAlignment ==
    \A n \in TaskIds :
        (Ran(n) /\ ~mask.present) =>
            LET o == tasks[n].out
                p == params[n]
            IN  /\ ~o.raised
                /\ Len(o.xs) = Len(o.ys)
                /\ o.conditional => Len(o.zs) = Len(o.ys)
                /\ \A j \in 0..(Len(o.ys) - 1) :
                      LET i == max_lag + j
                      IN  /\ 0 <= i /\ i < N
                          /\ o.ys[j + 1] = y[i + 1]
                          /\ 0 <= i - p.lag /\ i - p.lag < N
                          /\ o.xs[j + 1] = p.x[i - p.lag + 1]
                          /\ o.conditional =>
                                /\ 0 <= i - p.lag - cond_lag
                                /\ i - p.lag - cond_lag < N
                                /\ o.zs[j + 1] = cond.data[i - p.lag - cond_lag + 1]
                /\ Len(o.ys) = N - Max(max_lag, 0) + Min(min_lag, 0)
                /\ \A m \in TaskIds : Ran(m) => tasks[m].out.ys = o.ys

C3_NegativeLag ==
    \A n \in TaskIds :
        (Ran(n) /\ Len(lag) = 1 /\ lag[1] < 0 /\ cond_lag = 0 /\ ~mask.present) =>
            LET o == tasks[n].out
                a == Abs(lag[1])
            IN  /\ o.wy = SubSeq(y, 1, N - a)
                /\ o.wx = SubSeq(params[n].x, a + 1, N)
                /\ Len(o.wx) = N - a
                /\ Len(o.wy) = N - a

\* The elements a[i - shift], in order, for the indices i of y from lo up to
\* hi - 1 whose mask element is True.
RECURSIVE MaskedFrom(_, _, _, _, _)
MaskedFrom(a, shift, m, lo, hi) ==
    IF lo >= hi THEN <<>>
    ELSE (IF m[lo + 1] THEN <<a[lo - shift + 1]>> ELSE <<>>)
         \o MaskedFrom(a, shift, m, lo + 1, hi)

\* C4: with a mask, y[i] is handed to the estimator iff i lies in y's window
\* [max_lag, N + min(min_lag, 0)) and mask[i] is True; it is paired with
\* x[i - lag] and cond[i - lag - cond_lag]; order is kept and the filtered
\* slices have equal length.
C4_MaskAfterWindow ==
    \A n \in TaskIds :
        (Ran(n) /\ mask.present) =>
            LET o == tasks[n].out
                p == params[n]
                lo == Max(max_lag, 0)
                hi == N + Min(min_lag, 0)
            IN  /\ o.ys = MaskedFrom(y, 0, mask.data, lo, hi)
                /\ o.xs = MaskedFrom(p.x, p.lag, mask.data, lo, hi)
                /\ o.conditional =>
                      o.zs = MaskedFrom(cond.data, p.lag + cond_lag, mask.data, lo, hi)
                /\ Len(o.xs) = Len(o.ys)
                /\ o.conditional => Len(o.zs) = Len(o.ys)

\* C8: without a mask, every task hands its estimator slices of strictly
\* more than k observations.
C8_MoreThanK ==
    \A n \in TaskIds :
        (Handed(n) /\ ~mask.present) =>
            LET o == tasks[n].out
            IN  /\ Len(o.xs) > k
                /\ Len(o.ys) > k
                /\ o.conditional => Len(o.zs) > k

\* The value of the task built for lag position i and variable position j.
ExpectedCell(i, j) ==
    Estimate(lagged_mi(Descriptor(x.cols[j + 1], y, lag[i + 1], max_lag,
                                  min_lag, k, mask, cond, cond_lag)))

\* C5: on normal return every cell (i, j) of the grid holds the value of the
\* estimator on the slices _lagged_mi cuts for lag[i] and column j of x,
\* whatever order the tasks completed in; the grid is the same function of
\* the inputs in parallel and in sequential mode.
C5_GridByIndex ==
    pc = "returned" =>
        /\ DOMAIN result = (0..(Len(lag) - 1)) \X (0..(NVar(x) - 1))
        /\ \A c \in DOMAIN result : result[c] = ExpectedCell(c[1], c[2])

\* A parallel call returned although its tasks completed in an order other
\* than the one they were submitted in, with different values in the cells.
C5_Witness ==
    /\ pc = "returned"
    /\ inpool
    /\ Len(arrival) = 4
    /\ arrival[1] = 3
    /\ arrival[2] = 1
    /\ \A c, d \in DOMAIN result : c # d => result[c] # result[d]

\* C6: once the estimator has failed in any task, the call does not return
\* a grid; it ends raising.
C6_AllOrNothing ==
    (\E n \in TaskIds : tasks[n].state = "failed") => pc \in {"pool", "collect", "raised"}

\* A parallel call raises for the failure of its third task after two cells
\* of the grid were filled and while its fourth task had succeeded.
C6_Witness ==
    /\ pc = "raised"
    /\ inpool
    /\ error = "EstimatorError"
    /\ Len(tasks) = 4
    /\ tasks[3].state = "failed"
    /\ tasks[4].state = "done"
    /\ pos = 2
    /\ writes[<<0, 0>>] = 1

\* The preconditions on the arguments read so far, stated on the arguments.
ShapeViolated ==
    /\ y # <<>>
    /\ \/ XRows(x) # N
       \/ cond.present /\ Len(cond.data) # N
       \/ mask.present /\ Len(mask.data) # N
       \/ mask.present /\ mask.dtype # "bool"
       \/ N <= k
LagValues == {lag[n] : n \in 1..Len(lag)} \cup {lag[n] + cond_lag : n \in 1..Len(lag)}
LagRangeViolated ==
    /\ lag # <<>>
    /\ \/ \E a \in LagValues : Abs(a) >= N
       \/ \E a, b \in LagValues : a - b >= N
PrecheckErrors ==
    {"ValueError: x and y must have same length",
     "ValueError: x and cond must have same length",
     "ValueError: k must be smaller than number of observations",
     "ValueError: mask length does not match y length",
     "TypeError: mask must contain only booleans",
     "ValueError: lag is too large, no observations left",
     "ValueError: unrecognized value for parallel argument"}

\* C7: a call whose arguments violate a precondition (lengths of x, y, cond
\* and mask, mask dtype, N <= k; lag range, in particular a lag of magnitude
\* N or more; value of parallel) never enters _lagged_mi and ends raising;
\* whenever one of these errors was raised, _lagged_mi was not entered.
C7_ChecksBeforeTasks ==
    /\ error \in PrecheckErrors => invocations = 0
    /\ ShapeViolated => invocations = 0 /\ pc = "raised"
    /\ LagRangeViolated => invocations = 0 /\ pc = "raised"
    /\ parallel \notin {"None", "always", "disable"} => invocations = 0 /\ pc = "raised"

\* A call with a lag of magnitude N exactly has raised the lag-range error.
C7_Witness ==
    /\ pc = "raised"
    /\ error = "ValueError: lag is too large, no observations left"
    /\ N = MaxN
    /\ Len(lag) = 1
    /\ lag[1] = -N
    /\ cond_lag = 0
    /\ invocations = 0

\* C9: _should_be_parallel returns parallel for "always" and sequential for
\* "disable" whatever the task count and the length of y, raises for any
\* other override that is not absent, and with the override absent returns
\* parallel iff there is more than one task and y has more than 200
\* observations.
C9_Dispatch ==
    decision # "" =>
        /\ parallel = "always" => decision = "True"
        /\ parallel = "disable" => decision = "False"
        /\ parallel \notin {"None", "always", "disable"} => decision = "ValueError"
        /\ parallel = "None" =>
              /\ decision \in {"True", "False"}
              /\ decision = "True" <=> (Len(indices) > 1 /\ N > 200)
              /\ Len(indices) = 1 => decision = "False"
              /\ N <= 200 => decision = "False"

\* The heuristic decided for a y of exactly 200 observations and several
\* tasks.
C9_Witness ==
    /\ decision = "False"
    /\ parallel = "None"
    /\ N = 200
    /\ Len(indices) > 1

Enumerated == pc \in {"enumerated", "pool", "collect", "returned"}
\* Lag-major, variable-minor order of two index pairs.
PairBefore(a, b) == a[1] < b[1] \/ (a[1] = b[1] /\ a[2] < b[2])

\* C10: the descriptors are in lockstep with the index pairs: there are
\* len(lag) * nvar of each, the pairs are in lag-major, variable-minor order,
\* the n-th descriptor carries the lag and the column of x of the n-th pair;
\* on normal return every cell was assigned exactly once.
C10_Lockstep ==
    Enumerated =>
        /\ Len(indices) = Len(lag) * NVar(x)
        /\ Len(params) = Len(lag) * NVar(x)
        /\ \A n \in 1..Len(indices) :
              /\ indices[n][1] \in 0..(Len(lag) - 1)
              /\ indices[n][2] \in 0..(NVar(x) - 1)
        /\ \A n, m \in 1..Len(indices) : n < m => PairBefore(indices[n], indices[m])
        /\ \A n \in 1..Min(Len(indices), Len(params)) :
              /\ params[n].lag = lag[indices[n][1] + 1]
              /\ params[n].x = x.cols[indices[n][2] + 1]
        /\ pc = "returned" =>
              /\ DOMAIN writes = (0..(Len(lag) - 1)) \X (0..(NVar(x) - 1))
              /\ \A c \in DOMAIN writes : writes[c] = 1 /\ result[c] # Garbage

\* A call with a 2D x of two columns and two different lags has returned.
C10_Witness ==
    /\ pc = "returned"
    /\ x.ndim = 2
    /\ Len(x.cols) = 2
    /\ Len(lag) = 2
    /\ lag[1] # lag[2]
    /\ pos = 4

====
